---- MODULE Spec2Model ----
(***************************************************************************)
(* Model of src/trans.py: the command line entry point and                 *)
(* transcribe_speaker_diarization.  Strings are sequences of characters    *)
(* (the literal pieces of an f-string are kept as one token).  A character *)
(* is written as itself when it is printable ASCII or a printable Latin-1  *)
(* character, as "\t", "\n", "\f", "\r" for those four, and by its code    *)
(* point, as in "U+2003", otherwise.  The                                  *)
(* disk is a function from paths to what was last written there, and times *)
(* are counted in ticks of 1/256 s, which binary floating point holds      *)
(* exactly, so that "%.2f" is exact rounding half to even.                 *)
(***************************************************************************)
EXTENDS Integers, Sequences, FiniteSets, TLC

VARIABLES argv, pc, audio_file, wav_file, hf_token, disk, tracks, idx,
          temp_filename, segments, transcript_str, returned, stdout,
          exit_code, log

vars == <<argv, pc, audio_file, wav_file, hf_token, disk, tracks, idx,
          temp_filename, segments, transcript_str, returned, stdout,
          exit_code, log>>

\* ------------------------------------------------------------------ bounds

\* most segments the diarizer yields in one run
MaxSegs == 2
\* latest segment boundary, in ticks of 1/256 s
MaxTick == 2

\* ------------------------------------------------------- string primitives

\* the characters str.lower() changes, each with the character it becomes:
\* the cased letters of Basic Latin and Latin-1
LowerPairs ==
    { <<"A", "a">>, <<"B", "b">>, <<"C", "c">>, <<"D", "d">>, <<"E", "e">>,
      <<"F", "f">>, <<"G", "g">>, <<"H", "h">>, <<"I", "i">>, <<"J", "j">>,
      <<"K", "k">>, <<"L", "l">>, <<"M", "m">>, <<"N", "n">>, <<"O", "o">>,
      <<"P", "p">>, <<"Q", "q">>, <<"R", "r">>, <<"S", "s">>, <<"T", "t">>,
      <<"U", "u">>, <<"V", "v">>, <<"W", "w">>, <<"X", "x">>, <<"Y", "y">>,
      <<"Z", "z">>, <<"À", "à">>, <<"Á", "á">>, <<"Â", "â">>, <<"Ã", "ã">>,
      <<"Ä", "ä">>, <<"Å", "å">>, <<"Æ", "æ">>, <<"Ç", "ç">>, <<"È", "è">>,
      <<"É", "é">>, <<"Ê", "ê">>, <<"Ë", "ë">>, <<"Ì", "ì">>, <<"Í", "í">>,
      <<"Î", "î">>, <<"Ï", "ï">>, <<"Ð", "ð">>, <<"Ñ", "ñ">>, <<"Ò", "ò">>,
      <<"Ó", "ó">>, <<"Ô", "ô">>, <<"Õ", "õ">>, <<"Ö", "ö">>, <<"Ø", "ø">>,
      <<"Ù", "ù">>, <<"Ú", "ú">>, <<"Û", "û">>, <<"Ü", "ü">>, <<"Ý", "ý">>,
      <<"Þ", "þ">> }

\* str.lower() on one character: one character, or two for U+0130 (capital
\* I with dot above, which becomes i and the combining dot U+0307); U+212A
\* is the Kelvin sign.  Cased letters beyond Latin-1 other than these two
\* are outside the alphabet of the model.
LowerChar(c) ==
    IF c = "U+0130" THEN <<"i", "U+0307">>
    ELSE IF c = "U+212A" THEN <<"k">>
    ELSE IF \E pr \in LowerPairs : pr[1] = c
         THEN <<(CHOOSE pr \in LowerPairs : pr[1] = c)[2]>>
         ELSE <<c>>

\* str.lower()
RECURSIVE Lower(_)
Lower(s) ==
    IF s = <<>> THEN <<>> ELSE LowerChar(Head(s)) \o Lower(Tail(s))

\* str.endswith(suffix)
EndsWith(s, suffix) ==
    /\ Len(s) >= Len(suffix)
    /\ SubSeq(s, Len(s) - Len(suffix) + 1, Len(s)) = suffix

\* str.replace(old, new): every non-overlapping occurrence, left to right,
\* compared case-sensitively
RECURSIVE Replace(_, _, _)
Replace(s, old, new) ==
    IF Len(s) < Len(old) THEN s
    ELSE IF SubSeq(s, 1, Len(old)) = old
         THEN new \o Replace(SubSeq(s, Len(old) + 1, Len(s)), old, new)
         ELSE <<Head(s)>> \o Replace(Tail(s), old, new)

\* the characters str.strip() removes: every character whose isspace() is true
Whitespace ==
    { " ", "\t", "\n", "\f", "\r", "U+000B", "U+001C", "U+001D", "U+001E",
      "U+001F", "U+0085", "U+00A0", "U+1680", "U+2000", "U+2001", "U+2002",
      "U+2003", "U+2004", "U+2005", "U+2006", "U+2007", "U+2008", "U+2009",
      "U+200A", "U+2028", "U+2029", "U+202F", "U+205F", "U+3000" }

\* str.strip()
RECURSIVE LStrip(_)
LStrip(s) ==
    IF s # <<>> /\ Head(s) \in Whitespace THEN LStrip(Tail(s)) ELSE s

RECURSIVE RStrip(_)
RStrip(s) ==
    IF s # <<>> /\ s[Len(s)] \in Whitespace
    THEN RStrip(SubSeq(s, 1, Len(s) - 1)) ELSE s

Strip(s) == RStrip(LStrip(s))

DigitChar(d) == <<"0", "1", "2", "3", "4", "5", "6", "7", "8", "9">>[d + 1]

\* decimal digits of a natural number
RECURSIVE Digits(_)
Digits(n) ==
    IF n < 10 THEN <<DigitChar(n)>>
    ELSE Digits(n \div 10) \o <<DigitChar(n % 10)>>

\* hundredths of a second nearest to t ticks of 1/256 s, ties to even:
\* what "%.2f" prints for the float t/256
Hundredths(t) ==
    LET q == (t * 100) \div 256
        r == (t * 100) % 256
    IN  IF 2 * r > 256 \/ (2 * r = 256 /\ q % 2 = 1) THEN q + 1 ELSE q

\* f"{x:.2f}"
Fmt2(t) ==
    LET h == Hundredths(t)
    IN  Digits(h \div 100) \o <<".">> \o
        <<DigitChar((h \div 10) % 10), DigitChar(h % 10)>>

\* --------------------------------------------------------- program inputs

Script == <<"t", "r", "a", "n", "s", ".", "p", "y">>
Token == <<"h", "f">>
Extra == <<"x">>

\* the audio paths a caller may pass: the compressed extension in lower,
\* upper and repeated form, a stem that is not ASCII, an uncompressed file,
\* and files whose names are of the shape the run gives its own scratch
\* files
InputPaths ==
    { <<"a", ".", "m", "4", "a">>,
      <<"a", ".", "M", "4", "A">>,
      <<"É", ".", "M", "4", "a">>,
      <<"a", ".", "m", "4", "a", ".", "m", "4", "a">>,
      <<"a", ".", "w", "a", "v">>,
      <<"t", "e", "m", "p", "_", "A", "_", "0", ".", "0", "0", ".", "m", "4", "a">>,
      <<"t", "e", "m", "p", "_", "A", "_", "0", ".", "0", "0", ".", "w", "a", "v">> }

\* sys.argv: the script name followed by 0 to 3 positional arguments
ArgVectors ==
    { <<Script>> } \cup
    { <<Script, p>> : p \in InputPaths } \cup
    { <<Script, p, Token>> : p \in InputPaths } \cup
    { <<Script, p, Token, Extra>> : p \in { <<"a", ".", "w", "a", "v">> } }

Speakers == { <<"A">>, <<"B">> }

\* one (segment, label) pair of the diarization result
Tracks ==
    { t \in [speaker : Speakers, start : 0..MaxTick, end : 0..MaxTick] :
        t.start < t.end }

\* what itertracks may yield: any tracks, in any order, repeats included
TrackLists == UNION { [1..n -> Tracks] : n \in 0..MaxSegs }

\* result["text"] as the speech model returns it, before strip(): Whisper
\* puts a space in front of what it recognises; the white space around it
\* varies
WhisperTexts ==
    { <<" ", "h", "i", " ">>,
      <<" ", "h", "i", "\r", "\n">>,
      <<"U+00A0", "\f", "h", "i", "U+2003", "U+000B">> }

\* None, for wav_file; like None it is falsy
None == <<>>

UsageMessage ==
    <<"Usage: python transcribe_with_diarization.py <audio_file> <hf_token>">>

\* ------------------------------------------------------------ the file system

\* open(path, "wb") and write: creates the file or replaces its content
WriteFile(d, path, content) ==
    [q \in (DOMAIN d) \cup {path} |-> IF q = path THEN content ELSE d[q]]

\* os.path.exists
Exists(d, path) == path \in DOMAIN d

\* os.remove
RemoveFile(d, path) == [q \in (DOMAIN d) \ {path} |-> d[q]]

Event(kind, n, path) == <<kind, n, path>>

\* ------------------------------------------------ pieces of the function body

\* the test written against the number of arguments, one too low
UsageError_OffByOne(av) == Len(av) < 2

\* len(sys.argv) < 3
UsageError(av) == Len(av) < 3

\* the test without lower()
IsM4a_CaseSensitive(path) == EndsWith(path, <<".", "m", "4", "a">>)

\* audio_file.lower().endswith(".m4a")
IsM4a(path) == EndsWith(Lower(path), <<".", "m", "4", "a">>)

\* audio_file.replace(".m4a", ".wav")
WavFileFor(path) ==
    Replace(path, <<".", "m", "4", "a">>, <<".", "w", "a", "v">>)

\* f"temp_{speaker}_{start_time:.2f}.wav"
TempFilename(speaker, start) ==
    <<"t", "e", "m", "p", "_">> \o speaker \o <<"_">> \o Fmt2(start)
        \o <<".", "w", "a", "v">>

\* a loop that folds a segment into the one before it when the two overlap
AppendSegment_MergeOverlap(segs, track, text) ==
    IF segs # <<>> /\ segs[Len(segs)].end > track.start
    THEN segs
    ELSE Append(segs, [speaker |-> track.speaker, start |-> track.start,
                       end |-> track.end, text |-> Strip(text)])

\* segments.append({...}) with the text stripped
AppendSegment(segs, track, text) ==
    Append(segs, [speaker |-> track.speaker, start |-> track.start,
                  end |-> track.end, text |-> Strip(text)])

\* a loop body that leaves its scratch file behind
CleanupChunk_Forgotten(d, path) == d

\* a loop body that deletes the scratch file only when it is missing
CleanupChunk_Inverted(d, path) ==
    IF ~Exists(d, path) THEN RemoveFile(d, path) ELSE d

\* if os.path.exists(temp_filename): os.remove(temp_filename)
CleanupChunk(d, path) == IF Exists(d, path) THEN RemoveFile(d, path) ELSE d

\* if wav_file and os.path.exists(wav_file): os.remove(wav_file)
CleanupWav(d, wav) ==
    IF wav # None /\ Exists(d, wav) THEN RemoveFile(d, wav) ELSE d

\* list.sort(key=lambda x: x["start"]): stable, ascending
RECURSIVE InsertByStart(_, _)
InsertByStart(sorted, x) ==
    IF sorted = <<>> THEN <<x>>
    ELSE IF sorted[Len(sorted)].start <= x.start THEN Append(sorted, x)
    ELSE Append(InsertByStart(SubSeq(sorted, 1, Len(sorted) - 1), x),
                sorted[Len(sorted)])

\* the same sort keyed on x["end"]
RECURSIVE SortByEnd(_)
SortByEnd(segs) ==
    IF Len(segs) <= 1 THEN segs
    ELSE LET rest == SortByEnd(SubSeq(segs, 1, Len(segs) - 1))
             x == segs[Len(segs)]
             k == Cardinality({i \in 1..Len(rest) : rest[i].end <= x.end})
         IN  SubSeq(rest, 1, k) \o <<x>> \o SubSeq(rest, k + 1, Len(rest))

RECURSIVE SortByStart(_)
SortByStart(segs) ==
    IF segs = <<>> THEN <<>>
    ELSE InsertByStart(SortByStart(SubSeq(segs, 1, Len(segs) - 1)),
                       segs[Len(segs)])

\* f"Speaker {speaker} ({start:.2f}s - {end:.2f}s): {text}\n"
FormatLine(seg) ==
    <<"Speaker ">> \o seg.speaker \o <<" (">> \o Fmt2(seg.start) \o <<"s - ">>
        \o Fmt2(seg.end) \o <<"s): ">> \o seg.text \o <<"\n">>

\* transcript_str = ""; for seg in segments: transcript_str += line
RECURSIVE RenderTranscript(_)
RenderTranscript(segs) ==
    IF segs = <<>> THEN <<>>
    ELSE FormatLine(Head(segs)) \o RenderTranscript(Tail(segs))

\* a loop body wrapped in try/except that skips a segment it cannot
\* transcribe and goes on
AfterFailure_SkipSegment(at) ==
    IF at = "transcribe" THEN "remove_chunk" ELSE "failed"

\* no try/except anywhere: an exception raised at any statement leaves the
\* function and the script at once
AfterFailure(at) == "failed"

\* ---------------------------------------------------------------- the state

Init ==
    /\ argv \in ArgVectors
    /\ pc = "main"
    /\ audio_file = None
    /\ wav_file = None
    /\ hf_token = None
    /\ disk = IF Len(argv) >= 2
              THEN WriteFile(<<>>, argv[2], <<"input", 0>>)
              ELSE <<>>
    /\ tracks = <<>>
    /\ idx = 0
    /\ temp_filename = None
    /\ segments = <<>>
    /\ transcript_str = <<>>
    /\ returned = <<>>
    /\ stdout = <<>>
    /\ exit_code = -1
    /\ log = <<>>

\* the track the loop body is working on
Track == tracks[idx]

Logged(e) == log' = Append(log, e)

\* --------------------------------------------------------------- __main__

\* lines 104-109: the usage exit, or reading the two arguments
Main ==
    /\ pc = "main"
    /\ IF UsageError(argv)
       THEN /\ stdout' = Append(stdout, UsageMessage)
            /\ exit_code' = 1
            /\ pc' = "exited"
            /\ Logged(Event("usage", 0, None))
            /\ UNCHANGED <<audio_file, hf_token>>
       ELSE IF Len(argv) < 3
       THEN \* sys.argv[2] does not exist: IndexError
            /\ pc' = AfterFailure(pc)
            /\ exit_code' = 1
            /\ Logged(Event("fail", 0, None))
            /\ UNCHANGED <<audio_file, hf_token, stdout>>
       ELSE /\ audio_file' = argv[2]
            /\ hf_token' = argv[3]
            /\ pc' = "check_ext"
            /\ Logged(Event("call", 0, argv[2]))
            /\ UNCHANGED <<stdout, exit_code>>
    /\ UNCHANGED <<argv, wav_file, disk, tracks, idx, temp_filename, segments,
                   transcript_str, returned>>

\* line 112: print(transcript), then the script ends normally
PrintTranscript ==
    /\ pc = "print"
    /\ stdout' = Append(stdout, returned[1])
    /\ exit_code' = 0
    /\ pc' = "done"
    /\ Logged(Event("print", 0, None))
    /\ UNCHANGED <<argv, audio_file, wav_file, hf_token, disk, tracks, idx,
                   temp_filename, segments, transcript_str, returned>>

\* ------------------------------------------- transcribe_speaker_diarization

\* lines 20, 25-26: the extension test
CheckExtension ==
    /\ pc = "check_ext"
    /\ IF IsM4a(audio_file)
       THEN pc' = "decode_m4a" /\ UNCHANGED wav_file
       ELSE pc' = "load_pipeline" /\ wav_file' = None
    /\ UNCHANGED <<argv, audio_file, hf_token, disk, tracks, idx,
                   temp_filename, segments, transcript_str, returned, stdout,
                   exit_code, log>>

\* lines 21-22: decode the input, derive the name of the converted file
DecodeM4a ==
    /\ pc = "decode_m4a"
    /\ Exists(disk, audio_file)
    /\ wav_file' = WavFileFor(audio_file)
    /\ pc' = "export_wav"
    /\ Logged(Event("decode_m4a", 0, audio_file))
    /\ UNCHANGED <<argv, audio_file, hf_token, disk, tracks, idx,
                   temp_filename, segments, transcript_str, returned, stdout,
                   exit_code>>

\* lines 23-24: write the converted file and work on it from here on
ExportWav ==
    /\ pc = "export_wav"
    /\ disk' = WriteFile(disk, wav_file, <<"converted", 0>>)
    /\ audio_file' = wav_file
    /\ pc' = "load_pipeline"
    /\ Logged(Event("export_wav", 0, wav_file))
    /\ UNCHANGED <<argv, wav_file, hf_token, tracks, idx, temp_filename,
                   segments, transcript_str, returned, stdout, exit_code>>

\* lines 31-32: Pipeline.from_pretrained
LoadPipeline ==
    /\ pc = "load_pipeline"
    /\ pc' = "diarize"
    /\ Logged(Event("load_pipeline", 0, None))
    /\ UNCHANGED <<argv, audio_file, wav_file, hf_token, disk, tracks, idx,
                   temp_filename, segments, transcript_str, returned, stdout,
                   exit_code>>

\* line 37: pipeline(audio_file); the result is whatever the model finds
Diarize ==
    /\ pc = "diarize"
    /\ Exists(disk, audio_file)
    /\ \E ts \in TrackLists : tracks' = ts
    /\ pc' = "load_whisper"
    /\ Logged(Event("diarize", 0, audio_file))
    /\ UNCHANGED <<argv, audio_file, wav_file, hf_token, disk, idx,
                   temp_filename, segments, transcript_str, returned, stdout,
                   exit_code>>

\* lines 42-43: whisper.load_model
LoadWhisper ==
    /\ pc = "load_whisper"
    /\ pc' = "load_audio"
    /\ Logged(Event("load_whisper", 0, None))
    /\ UNCHANGED <<argv, audio_file, wav_file, hf_token, disk, tracks, idx,
                   temp_filename, segments, transcript_str, returned, stdout,
                   exit_code>>

\* lines 48, 53: AudioSegment.from_file(audio_file); segments = []
LoadAudio ==
    /\ pc = "load_audio"
    /\ Exists(disk, audio_file)
    /\ segments' = <<>>
    /\ pc' = "for"
    /\ Logged(Event("load_audio", 0, audio_file))
    /\ UNCHANGED <<argv, audio_file, wav_file, hf_token, disk, tracks, idx,
                   temp_filename, transcript_str, returned, stdout, exit_code>>

\* lines 57-59: the next track of the iteration
ForNext ==
    /\ pc = "for"
    /\ idx < Len(tracks)
    /\ idx' = idx + 1
    /\ pc' = "slice"
    /\ UNCHANGED <<argv, audio_file, wav_file, hf_token, disk, tracks,
                   temp_filename, segments, transcript_str, returned, stdout,
                   exit_code, log>>

\* line 57: the iteration is exhausted
ForEnd ==
    /\ pc = "for"
    /\ idx = Len(tracks)
    /\ pc' = "sort"
    /\ UNCHANGED <<argv, audio_file, wav_file, hf_token, disk, tracks, idx,
                   temp_filename, segments, transcript_str, returned, stdout,
                   exit_code, log>>

\* lines 62-65: slice the loaded audio, name the scratch file
Slice ==
    /\ pc = "slice"
    /\ temp_filename' = TempFilename(Track.speaker, Track.start)
    /\ pc' = "export_chunk"
    /\ Logged(Event("slice", idx, None))
    /\ UNCHANGED <<argv, audio_file, wav_file, hf_token, disk, tracks, idx,
                   segments, transcript_str, returned, stdout, exit_code>>

\* line 66: audio_chunk.export(temp_filename)
ExportChunk ==
    /\ pc = "export_chunk"
    /\ disk' = WriteFile(disk, temp_filename, <<"chunk", idx>>)
    /\ pc' = "transcribe"
    /\ Logged(Event("export_chunk", idx, temp_filename))
    /\ UNCHANGED <<argv, audio_file, wav_file, hf_token, tracks, idx,
                   temp_filename, segments, transcript_str, returned, stdout,
                   exit_code>>

\* lines 70-77: transcribe the scratch file, keep the stripped text
Transcribe ==
    /\ pc = "transcribe"
    /\ Exists(disk, temp_filename)
    /\ \E text \in WhisperTexts : segments' = AppendSegment(segments, Track, text)
    /\ pc' = "remove_chunk"
    /\ Logged(Event("transcribe", idx, temp_filename))
    /\ UNCHANGED <<argv, audio_file, wav_file, hf_token, disk, tracks, idx,
                   temp_filename, transcript_str, returned, stdout, exit_code>>

\* lines 80-81: delete the scratch file
RemoveChunk ==
    /\ pc = "remove_chunk"
    /\ disk' = CleanupChunk(disk, temp_filename)
    /\ pc' = "for"
    /\ Logged(Event(IF disk' = disk THEN "skip_remove_chunk" ELSE "remove_chunk",
                    idx, temp_filename))
    /\ UNCHANGED <<argv, audio_file, wav_file, hf_token, tracks, idx,
                   temp_filename, segments, transcript_str, returned, stdout,
                   exit_code>>

\* line 86: segments.sort
SortSegments ==
    /\ pc = "sort"
    /\ segments' = SortByStart(segments)
    /\ pc' = "render"
    /\ UNCHANGED <<argv, audio_file, wav_file, hf_token, disk, tracks, idx,
                   temp_filename, transcript_str, returned, stdout, exit_code,
                   log>>

\* lines 91-96: build the transcript
Render ==
    /\ pc = "render"
    /\ transcript_str' = RenderTranscript(segments)
    /\ pc' = "cleanup_wav"
    /\ UNCHANGED <<argv, audio_file, wav_file, hf_token, disk, tracks, idx,
                   temp_filename, segments, returned, stdout, exit_code, log>>

\* lines 98-99: delete the converted file
RemoveWav ==
    /\ pc = "cleanup_wav"
    /\ disk' = CleanupWav(disk, wav_file)
    /\ pc' = "return"
    /\ Logged(Event(IF disk' = disk THEN "skip_remove_wav" ELSE "remove_wav",
                    0, wav_file))
    /\ UNCHANGED <<argv, audio_file, wav_file, hf_token, tracks, idx,
                   temp_filename, segments, transcript_str, returned, stdout,
                   exit_code>>

\* lines 100, 111: return transcript_str to the caller
Return ==
    /\ pc = "return"
    /\ returned' = <<transcript_str>>
    /\ pc' = "print"
    /\ UNCHANGED <<argv, audio_file, wav_file, hf_token, disk, tracks, idx,
                   temp_filename, segments, transcript_str, stdout, exit_code,
                   log>>

\* ------------------------------------------------------------------ failures

\* the statements of the function that call into a library and write no
\* file: decoding, the two model loads, the diarization, loading the audio,
\* the iteration over the tracks, slicing, transcription and the two
\* os.remove calls (which raise without removing)
RaisingPcs ==
    {"decode_m4a", "load_pipeline", "diarize", "load_whisper", "load_audio",
     "for", "slice", "transcribe", "remove_chunk", "cleanup_wav"}

\* a library call raises: nothing catches it, the interpreter prints the
\* traceback to stderr and exits with status 1
Raise ==
    /\ pc \in RaisingPcs
    /\ pc' = AfterFailure(pc)
    /\ exit_code' = IF pc' = "failed" THEN 1 ELSE exit_code
    /\ Logged(Event("fail", idx, None))
    /\ UNCHANGED <<argv, audio_file, wav_file, hf_token, disk, tracks, idx,
                   temp_filename, segments, transcript_str, returned, stdout>>

\* audio.export(wav_file) raises (line 23): the file was opened for writing
\* or not, depending on where the export failed
ExportWavRaise ==
    /\ pc = "export_wav"
    /\ \E opened \in BOOLEAN :
         disk' = IF opened THEN WriteFile(disk, wav_file, <<"partial", 0>>)
                 ELSE disk
    /\ pc' = AfterFailure(pc)
    /\ exit_code' = IF pc' = "failed" THEN 1 ELSE exit_code
    /\ Logged(Event("fail", idx, wav_file))
    /\ UNCHANGED <<argv, audio_file, wav_file, hf_token, tracks, idx,
                   temp_filename, segments, transcript_str, returned, stdout>>

\* audio_chunk.export(temp_filename) raises (line 66)
ExportChunkRaise ==
    /\ pc = "export_chunk"
    /\ \E opened \in BOOLEAN :
         disk' = IF opened THEN WriteFile(disk, temp_filename, <<"partial", idx>>)
                 ELSE disk
    /\ pc' = AfterFailure(pc)
    /\ exit_code' = IF pc' = "failed" THEN 1 ELSE exit_code
    /\ Logged(Event("fail", idx, temp_filename))
    /\ UNCHANGED <<argv, audio_file, wav_file, hf_token, tracks, idx,
                   temp_filename, segments, transcript_str, returned, stdout>>

Next ==
    \/ Main
    \/ CheckExtension
    \/ DecodeM4a
    \/ ExportWav
    \/ LoadPipeline
    \/ Diarize
    \/ LoadWhisper
    \/ LoadAudio
    \/ ForNext
    \/ ForEnd
    \/ Slice
    \/ ExportChunk
    \/ Transcribe
    \/ RemoveChunk
    \/ SortSegments
    \/ Render
    \/ RemoveWav
    \/ Return
    \/ PrintTranscript
    \/ Raise
    \/ ExportWavRaise
    \/ ExportChunkRaise

Spec == Init /\ [][Next]_vars

\* ============================================================== properties

\* the function has returned its transcript
Returned == returned # <<>>

\* the lines of a newline-terminated text, each with its terminator
RECURSIVE SplitLines(_)
SplitLines(s) ==
    IF s = <<>> THEN <<>>
    ELSE LET k == CHOOSE i \in 1..Len(s) :
                      s[i] = "\n" /\ \A j \in 1..(i - 1) : s[j] # "\n"
         IN  <<SubSeq(s, 1, k)>> \o SplitLines(SubSeq(s, k + 1, Len(s)))

TranscriptLines == SplitLines(returned[1])

DigitValue(c) == CHOOSE d \in 0..9 : DigitChar(d) = c

\* the number of hundredths a printed "d.dd" stands for
RECURSIVE ParseHundredths(_)
ParseHundredths(ds) ==
    IF ds = <<>> THEN 0
    ELSE IF ds[Len(ds)] = "."
         THEN ParseHundredths(SubSeq(ds, 1, Len(ds) - 1))
         ELSE 10 * ParseHundredths(SubSeq(ds, 1, Len(ds) - 1))
              + DigitValue(ds[Len(ds)])

\* the start time printed on a transcript line, in hundredths of a second
LineStart(line) ==
    LET i == CHOOSE k \in 1..Len(line) : line[k] = " ("
        j == CHOOSE k \in 1..Len(line) : line[k] = "s - "
    IN  ParseHundredths(SubSeq(line, i + 1, j - 1))

\* line is the rendered entry of track t, whatever text was recognised
RendersTrack(line, t) ==
    \E text \in WhisperTexts :
        line = FormatLine([speaker |-> t.speaker, start |-> t.start,
                           end |-> t.end, text |-> Strip(text)])

Bijections(n) ==
    { f \in [1..n -> 1..n] : \A i, j \in 1..n : f[i] = f[j] => i = j }

\* C1: whatever the diarizer yields and in whatever order, the lines of the
\* returned transcript are the yielded segments arranged by non-decreasing
\* start time, and the start times printed on them never decrease.
C1_TranscriptOrderedByStart ==
    Returned =>
        LET lines == TranscriptLines
            n == Len(tracks)
        IN  /\ Len(lines) = n
            /\ \E p \in Bijections(n) :
                  /\ \A i \in 1..n : RendersTrack(lines[i], tracks[p[i]])
                  /\ \A i, j \in 1..n :
                        i < j => tracks[p[i]].start <= tracks[p[j]].start
            /\ \A i, j \in 1..n :
                  i < j => LineStart(lines[i]) <= LineStart(lines[j])

\* a returned transcript whose segments were yielded latest-first
C1_Witness ==
    /\ Returned
    /\ Len(tracks) >= 2
    /\ tracks[1].start > tracks[2].start

\* C4: the returned transcript has exactly one line per yielded track, each
\* line rendering its own track's speaker, start and end (a one-to-one
\* matching, so nothing is dropped, merged or repeated, overlapping tracks
\* of different speakers included), and no tracks give the empty string.
C4_OneLinePerSegment ==
    Returned =>
        LET lines == TranscriptLines
            n == Len(tracks)
        IN  /\ Len(lines) = n
            /\ \E p \in Bijections(n) :
                  \A i \in 1..n : RendersTrack(lines[i], tracks[p[i]])
            /\ (tracks = <<>> => returned[1] = <<>>)

\* a returned transcript of two overlapping segments of different speakers
C4_Witness ==
    /\ Returned
    /\ Len(tracks) >= 2
    /\ tracks[1].speaker # tracks[2].speaker
    /\ tracks[1].start < tracks[2].end
    /\ tracks[2].start < tracks[1].end
    /\ Len(TranscriptLines) = 2

\* the empty diarization returned the empty transcript
C4_WitnessEmpty == Returned /\ tracks = <<>> /\ returned[1] = <<>>

\* ---- helpers over the event log

Kind(e) == e[1]
Seg(e) == e[2]
Path(e) == e[3]

\* positions of the events of one kind
At(kind) == { i \in 1..Len(log) : Kind(log[i]) = kind }

\* positions of the events of one kind about segment n
AtSeg(kind, n) == { i \in At(kind) : Seg(log[i]) = n }

\* the Format Normalizer recognises the path the caller passed
Recognised ==
    /\ Len(argv) >= 3
    /\ EndsWith(Lower(argv[2]), <<".", "m", "4", "a">>)

\* C2: once the function has returned, no path a scratch chunk was written
\* to during the run is on disk.
C2_ScratchFilesGoneOnReturn ==
    Returned =>
        \A i \in At("export_chunk") : ~Exists(disk, Path(log[i]))

\* a run that wrote two scratch files under different names has returned
C2_Witness ==
    /\ Returned
    /\ \E i, j \in At("export_chunk") : Path(log[i]) # Path(log[j])

\* C3: for a recognised extension (any letter case) the converted file is on
\* disk, written by the conversion, when diarization starts, and is gone
\* when the function has returned; for any other extension the run has no
\* converted file and neither writes nor removes one.
C3_ConvertedFileLifecycle ==
    Len(argv) >= 3 =>
        LET exports == At("export_wav")
            diarizations == At("diarize")
        IN  IF EndsWith(Lower(argv[2]), <<".", "m", "4", "a">>)
            THEN /\ pc = "diarize" =>
                       /\ exports # {}
                       /\ wav_file # None
                       /\ Exists(disk, wav_file)
                       /\ disk[wav_file] = <<"converted", 0>>
                 /\ diarizations # {} =>
                       \E i \in exports : \A j \in diarizations : i < j
                 /\ Returned =>
                       /\ wav_file # None
                       /\ ~Exists(disk, wav_file)
            ELSE /\ wav_file = None
                 /\ exports = {}
                 /\ At("remove_wav") = {}
                 /\ At("decode_m4a") = {}

\* an upper-case .M4A input was converted, diarized and the run has returned
C3_Witness ==
    /\ Returned
    /\ Recognised
    /\ argv[2] # Lower(argv[2])
    /\ At("export_wav") # {}
    /\ At("remove_wav") # {}

\* an unrecognised extension ran to the end without a converted file
C3_WitnessPlain == Returned /\ ~Recognised /\ wav_file = None

\* C5: with fewer than two positional arguments the script prints the usage
\* message and exits with code 1, and nothing else happens: no stage runs
\* and the disk is as it was; with two or more the usage exit is never taken
\* and the function is called.
C5_UsageExit ==
    /\ Len(argv) < 3 =>
          /\ pc \in {"main", "exited"}
          /\ pc = "exited" =>
                /\ stdout = <<UsageMessage>>
                /\ exit_code = 1
                /\ log = <<Event("usage", 0, None)>>
          /\ returned = <<>>
          /\ disk = IF Len(argv) >= 2
                    THEN WriteFile(<<>>, argv[2], <<"input", 0>>) ELSE <<>>
    /\ Len(argv) >= 3 =>
          /\ pc # "exited"
          /\ At("usage") = {}
          /\ \A i \in 1..Len(stdout) : stdout[i] # UsageMessage
          /\ pc # "main" => log[1] = Event("call", 0, argv[2])

\* the usage exit was taken with exactly one positional argument
C5_Witness == Len(argv) = 2 /\ pc = "exited" /\ exit_code = 1

\* the pipeline ran to the end with two positional arguments
C5_WitnessRun == Len(argv) = 3 /\ pc = "done"

\* C7: at most one scratch file of the run is on disk at any time; a
\* segment's slice, write, transcribe and delete happen in that order and
\* all before the next segment's scratch file is written; every
\* transcription comes after the one diarization.
C7_OneSegmentAtATime ==
    LET slices == At("slice")
        writes == At("export_chunk")
        transcriptions == At("transcribe")
        removals == At("remove_chunk")
        diarizations == At("diarize")
        Of(set, n) == { i \in set : Seg(log[i]) = n }
    IN  /\ Cardinality({ q \in DOMAIN disk :
                           \E i \in writes : Path(log[i]) = q }) <= 1
        /\ Cardinality({ q \in DOMAIN disk :
                           /\ disk[q][1] \in {"chunk", "partial"}
                           /\ disk[q][2] >= 1 }) <= 1
        /\ \A i \in writes :
              LET n == Seg(log[i])
              IN  /\ \E s \in Of(slices, n) : s < i
                  /\ \A t \in Of(transcriptions, n) : i < t
                  /\ \A r \in Of(removals, n) :
                        /\ i < r
                        /\ \E t \in Of(transcriptions, n) : t < r
                  /\ n > 1 =>
                        \E s \in Of(slices, n - 1), w \in Of(writes, n - 1),
                           t \in Of(transcriptions, n - 1),
                           r \in Of(removals, n - 1) :
                            s < w /\ w < t /\ t < r /\ r < i
        /\ \A t \in transcriptions :
              /\ \E d \in diarizations : d < t
              /\ \A d \in diarizations : d < t

\* the second segment's scratch file is on disk, the first one's is not
C7_Witness ==
    /\ pc = "transcribe"
    /\ idx = 2
    /\ \E i \in AtSeg("export_chunk", 1) :
          /\ Path(log[i]) # temp_filename
          /\ ~Exists(disk, Path(log[i]))
    /\ Exists(disk, temp_filename)

\* C8: a failure is the last thing a run does: nothing is logged after it,
\* the run is over, and nothing was returned or printed, whatever segments
\* had been transcribed by then.
C8_FailureAbortsRun ==
    \A i \in At("fail") :
        /\ i = Len(log)
        /\ pc = "failed"
        /\ returned = <<>>
        /\ stdout = <<>>

\* the second segment failed after the first was transcribed
C8_Witness ==
    /\ pc = "failed"
    /\ Len(segments) = 1
    /\ idx = 2
    /\ At("fail") # {}

\* C6: any two segments of a run that differ in speaker label or in start
\* time were given different scratch filenames.
C6_DistinctSegmentsDistinctNames ==
    \A i, j \in At("export_chunk") :
        LET a == tracks[Seg(log[i])]
            b == tracks[Seg(log[j])]
        IN  (a.speaker # b.speaker \/ a.start # b.start) =>
                Path(log[i]) # Path(log[j])

\* the run has failed in the transcription of the segment at hand: the last
\* thing it did before the failure was to write that segment's scratch file
TranscriptionFailed ==
    /\ pc = "failed"
    /\ Len(log) >= 2
    /\ Kind(log[Len(log) - 1]) = "export_chunk"

\* C9: a run that failed in a transcription ends with that segment's scratch
\* file on disk and no earlier segment's; a run that failed after the
\* conversion ends with the converted file on disk.
C9_FailureLeavesFiles ==
    /\ TranscriptionFailed =>
          /\ Exists(disk, temp_filename)
          /\ disk[temp_filename] = <<"chunk", idx>>
          /\ \A q \in DOMAIN disk : disk[q][1] = "chunk" => disk[q][2] = idx
    /\ (pc = "failed" /\ At("export_wav") # {}) => Exists(disk, wav_file)

\* C10: the converted file's path differs from the path the caller passed,
\* nothing the run writes or removes is at that path, and the caller's file
\* stays on disk as it was.
C10_InputFileUntouched ==
    Len(argv) >= 3 =>
        /\ wav_file # None => wav_file # argv[2]
        /\ \A i \in 1..Len(log) :
              Kind(log[i]) \in {"export_wav", "export_chunk", "remove_chunk",
                                "remove_wav"}
                  => Path(log[i]) # argv[2]
        /\ Exists(disk, argv[2])
        /\ disk[argv[2]] = <<"input", 0>>

====
